---- MODULE Spec2Model ----
(***************************************************************************)
(* A model of qcengine/programs/dftd4.py: the DFTD4Harness adapter.        *)
(*                                                                         *)
(* Python strings are sequences of one-character strings, so that          *)
(* startswith / endswith / lower / upper / slicing are computed the way    *)
(* the interpreter computes them.  Dictionaries are functions whose        *)
(* DOMAIN is the set of keys present; an insertion-ordered dictionary that *)
(* the code iterates (the alias table) is a sequence of <<key, value>>     *)
(* pairs.  Energies are integers in units of 1e-9 hartree.                 *)
(***************************************************************************)
EXTENDS Integers, Sequences, FiniteSets, TLC

\* ------------------------------------------------------------------ bounds

\* get_version calls made in one run of the model
MaxCalls == 3
\* pieces a generated method string is concatenated from
MaxPieces == 3

\* ----------------------------------------------------------------- strings

Max(a, b) == IF a >= b THEN a ELSE b

Abs(x) == IF x < 0 THEN -x ELSE x

\* str.lower() on one character
LowerChar(c) ==
    CASE c = "D" -> "d"
      [] c = "B" -> "b"
      [] c = "J" -> "j"
      [] c = "P" -> "p"
      [] c = "E" -> "e"
      [] OTHER -> c

\* str.upper() on one character
UpperChar(c) ==
    CASE c = "d" -> "D"
      [] c = "b" -> "B"
      [] c = "j" -> "J"
      [] c = "p" -> "P"
      [] c = "e" -> "E"
      [] OTHER -> c

Lower(s) == [i \in 1..Len(s) |-> LowerChar(s[i])]

Upper(s) == [i \in 1..Len(s) |-> UpperChar(s[i])]

\* s.startswith(p)
StartsWith(s, p) == Len(p) <= Len(s) /\ SubSeq(s, 1, Len(p)) = p

\* s.endswith(p)
EndsWith(s, p) == Len(p) <= Len(s) /\ SubSeq(s, Len(s) - Len(p) + 1, Len(s)) = p

\* s[n:] for n >= 0
DropFirst(s, n) == SubSeq(s, n + 1, Len(s))

\* s[:-n] for n >= 1: the slice end is clamped at the start of the string
DropLast(s, n) == SubSeq(s, 1, Max(Len(s) - n, 0))

\* the adapter's engine hint, "d4-"
EnginePrefix == <<"d", "4", "-">>

\* the tag the code compares alias values with, "d4bj"
D4BJ == <<"d", "4", "b", "j">>

\* the canonical level hint written back, "d4"
D4 == <<"d", "4">>

\* ------------------------------------------------------------ dictionaries

\* {}
EmptyDict == [k \in {} |-> TRUE]

\* d.get(k, None): <<>> for None, <<v>> for a value
Get(d, k) == IF k \in DOMAIN d THEN <<d[k]>> ELSE <<>>

\* d after d.update(e): the keys of e win
Update(d, e) == e @@ d

\* d after d[k] = v
Put(d, k, v) == (k :> v) @@ d

\* --------------------------------------------------- the adapter's collaborators

\* (alias, tag) pairs get_dispersion_aliases() may hold: "d4bj" and "d4" name the
\* D4 + Becke-Johnson tag, "d3" names another tag
AliasEntries ==
    { <<D4BJ, D4BJ>>, <<D4, D4BJ>>, <<(<<"d", "3">>), (<<"d", "3", "z">>)>> }

\* the alias table in every iteration order a dictionary can have
AliasTables ==
    { t \in [1..Cardinality(AliasEntries) -> AliasEntries] :
        \A i, j \in DOMAIN t : i # j => t[i] # t[j] }

\* the keys of the alias table
AliasKeys(t) == { t[i][1] : i \in DOMAIN t }

\* get_dispersion_aliases()[k], for a key the table holds
Lookup(t, k) == LET i == CHOOSE i \in DOMAIN t : t[i][1] = k IN t[i][2]

\* plans from_arrays can return: fctldash "" (parameters given without a
\* functional) and fctldash "pbe-d4"
Plans ==
    { [fctldash |-> <<>>],
      [fctldash |-> <<"p", "b", "e", "-", "d", "4">>] }

\* how a from_arrays call can end
ResolverOutcomes ==
    { [kind |-> "plan", plan |-> p] : p \in Plans }
    \cup { [kind |-> "InputError"], [kind |-> "OtherError"] }

\* dftd4.__version__ strings the backend can report: <<tag, local part>>
RawVersions == { <<"3.4.0", "">>, <<"3.5.0", "+g1f2e">> }

\* safe_version: the public version, the local (VCS) part dropped
safe_version(raw) == raw[1]

\* paths which_import("dftd4") can resolve to
Paths == { "site/dftd4", "venv/dftd4" }

\* --------------------------------------------------------------- requests

PBE == <<"p", "b", "e">>

\* pieces method strings are concatenated from
Pieces ==
    { EnginePrefix, PBE, <<"-", "d", "4">>, <<"-", "d", "4", "b", "j">>,
      <<"-", "D", "4", "B", "J">>, D4BJ }

RECURSIVE Concat(_)
Concat(ps) == IF ps = <<>> THEN <<>> ELSE Head(ps) \o Concat(Tail(ps))

\* every concatenation of at most MaxPieces pieces
Methods ==
    UNION { { Concat(ps) : ps \in [1..n -> Pieces] } : n \in 0..MaxPieces }

\* values of keywords["level_hint"]: "", "d4", "D4BJ", "d3", and "zz", which no
\* alias table holds
LevelHints ==
    { <<>>, D4, <<"D", "4", "B", "J">>, <<"d", "3">>, <<"z", "z">> }

\* values of keywords["pair_resolved"]: the boolean True, and 1 (truthy, but
\* not the boolean)
PairResolvedValues == { "True", "1" }

Drivers == { "energy", "gradient", "hessian" }

\* a dictionary holding key k with one of the values vs, or not holding it
Optional(k, vs) == { EmptyDict } \cup { k :> v : v \in vs }

\* the keys the adapter writes into the metadata bag
QcvKey(pre, label) == [pre |-> pre, label |-> label]

\* a qcvars bag a caller may send along
CallerQcvars == QcvKey(<<>>, "CURRENT ENERGY") :> 999

\* an extras["dftd4"] entry a caller may send along
CallerDftd4 == [additive |-> <<-30, -20>>, nonadditive |-> <<5>>]

\* extras["info"] values a caller may send along: a plan-like dictionary, and a
\* dictionary without "fctldash"
CallerInfos == { [fctldash |-> <<"b", "p">>], [origin |-> "caller"] }

AllExtras ==
    { i @@ q @@ d @@ n :
        i \in Optional("info", CallerInfos),
        q \in Optional("qcvars", {CallerQcvars}),
        d \in Optional("dftd4", {CallerDftd4}),
        n \in Optional("note", {"from caller"}) }

Request(m, d, k, e) == [method |-> m, driver |-> d, keywords |-> k, extras |-> e]

\* requests that vary the method string
MethodRequests ==
    { Request(m, "energy", EmptyDict, EmptyDict) : m \in Methods }

\* requests that vary the level hint
HintRequests ==
    { Request(m, "energy", k, EmptyDict) :
        m \in { PBE, PBE \o <<"-", "d", "4">> },
        k \in Optional("level_hint", LevelHints) }

\* requests that vary driver, pair_resolved and the caller's extras
ExtrasRequests ==
    { Request(PBE, d, k, e) :
        d \in Drivers,
        k \in Optional("pair_resolved", PairResolvedValues),
        e \in AllExtras }

\* the alias table of the requests that do not depend on its order
SomeTable == CHOOSE t \in AliasTables : TRUE

\* compute calls: a request, and the alias table of the process it runs in
Requests ==
    (MethodRequests \X AliasTables)
    \cup (HintRequests \X AliasTables)
    \cup (ExtrasRequests \X {SomeTable})

\* a few requests that take compute through each of its branches
CoreRequests ==
    { Request(EnginePrefix \o PBE \o <<"-", "d", "4">>, "gradient",
              ("level_hint" :> D4BJ) @@ ("pair_resolved" :> "True"),
              "note" :> "from caller"),
      Request(PBE, "energy", "level_hint" :> <<"z", "z">>, EmptyDict),
      Request(PBE, "energy", EmptyDict, "info" :> [origin |-> "caller"]) }
    \X {SomeTable}

\* ------------------------------------------------------------ the delegate

RECURSIVE Sum(_)
\* numpy's array.sum()
Sum(a) == IF a = <<>> THEN 0 ELSE Head(a) + Sum(Tail(a))

\* the energy the backend returns, in units of 1e-9
Energies == { -50 }

\* pairwise arrays the backend reports: their sum is the energy, or is off by
\* 9, 10 or -11 units
Pairwise ==
    { [additive |-> <<-30, -20>>, nonadditive |-> <<x>>] : x \in {0, 9, 10, -11} }

\* extras keys a backend result may hold that a request's extras may hold too
BackendOwn ==
    ("note" :> "from backend")
    @@ ("info" :> [origin |-> "backend"])
    @@ ("qcvars" :> (QcvKey(<<>>, "CURRENT ENERGY") :> 0))

\* what the backend returns for a driver
ReturnResult(driver, ene) ==
    IF driver = "energy" THEN ene
    ELSE IF driver = "gradient" THEN <<1, -1, 0>>
    ELSE <<2, 0, 0, 2>>

\* how run_qcschema(req) can end: it raises, or returns a result whose extras
\* hold the pairwise arrays when pair_resolved is set
DelegateOutcomes(req) ==
    { [kind |-> "raise"] }
    \cup { [kind |-> "return",
            output |-> [return_energy |-> e,
                        return_result |-> ReturnResult(req.driver, e),
                        extras |-> x @@ own]] :
            e \in Energies,
            own \in { EmptyDict, BackendOwn },
            x \in IF Get(req.keywords, "pair_resolved") = <<"True">>
                  THEN { "dftd4" :> p : p \in Pairwise }
                  ELSE { EmptyDict } }

\* ------------------------------------------------------------------ state

VARIABLES
    present,          \* whether the dftd4 package can be imported
    which_prog,       \* what which_import("dftd4") resolves to
    raw_version,      \* dftd4.__version__
    version_cache,    \* DFTD4Harness.version_cache
    reads,            \* history: reads of dftd4.__version__, per resolved path
    returned,         \* history: strings get_version returned, per resolved path
    nCalls,           \* history: get_version calls made
    pc,               \* where compute stands
    aliases,          \* get_dispersion_aliases()
    request,          \* history: compute's argument as the caller passed it
    input_model,      \* compute's variable input_model
    input_data,       \* compute's variable input_data
    mtd,              \* compute's variable mtd
    resolved,         \* history: how the from_arrays calls of this compute ended
    delegated,        \* history: the requests handed to run_qcschema
    output,           \* compute's variable output
    pair_checked,     \* history: the pairwise-energy assertion was evaluated
    qcvars_written,   \* history: compute assigned output.extras["qcvars"]
    backend,          \* history: the result as run_qcschema returned it
    result            \* how the last operation ended

envVars == <<present, which_prog, raw_version>>

versionVars == <<version_cache, reads, returned, nCalls>>

computeVars ==
    <<pc, aliases, request, input_model, input_data, mtd, resolved, delegated,
      output, pair_checked, qcvars_written, backend>>

vars == <<envVars, versionVars, computeVars, result>>

NullRequest == Request(<<>>, "energy", EmptyDict, EmptyDict)

NullOutput == [return_energy |-> 0, return_result |-> 0, extras |-> EmptyDict]

NoResult == [op |-> "none", kind |-> "none"]

Returned(op, v) == [op |-> op, kind |-> "return", value |-> v]

Raised(op, e) == [op |-> op, kind |-> "raise", error |-> e]

\* compute raises e at the step named at
RaisedAt(at, e) == [at |-> at] @@ Raised("compute", e)

\* compute's variables when no compute call is running
ComputeIdle ==
    /\ pc = "idle"
    /\ aliases = SomeTable
    /\ request = NullRequest
    /\ input_model = NullRequest
    /\ input_data = NullRequest
    /\ mtd = <<>>
    /\ resolved = <<>>
    /\ delegated = <<>>
    /\ output = NullOutput
    /\ pair_checked = FALSE
    /\ qcvars_written = FALSE
    /\ backend = <<>>

Init ==
    /\ present \in BOOLEAN
    /\ which_prog = "site/dftd4"
    /\ raw_version = <<"3.4.0", "">>
    /\ version_cache = EmptyDict
    /\ reads = [p \in Paths |-> 0]
    /\ returned = [p \in Paths |-> {}]
    /\ nCalls = 0
    /\ ComputeIdle
    /\ result = NoResult

\* ------------------------------------------------------- found, get_version

\* the probe with raise_error ignored: an absent backend is only reported
found_NeverRaises(raise_error) == Returned("found", present)

\* which_import("dftd4", return_bool=True, raise_error=raise_error, ...)
found(raise_error) ==
    IF present THEN Returned("found", TRUE)
    ELSE IF raise_error THEN Raised("found", "MissingDependency")
    ELSE Returned("found", FALSE)

\* a call of found by the harness's user
Found ==
    /\ pc = "idle"
    /\ \E raise_error \in BOOLEAN :
         result' = [arg |-> raise_error] @@ found(raise_error)
    /\ UNCHANGED <<envVars, versionVars, computeVars>>

\* whether get_version imports dftd4 and reads dftd4.__version__
ReadsBackend(cache, prog) == prog \notin DOMAIN cache

\* get_version without the cache test: every call stores what it reads
CacheAfter_AlwaysStore(cache, prog, raw) == Put(cache, prog, safe_version(raw))

\* version_cache when get_version returns
CacheAfter(cache, prog, raw) ==
    IF ReadsBackend(cache, prog) THEN Put(cache, prog, safe_version(raw)) ELSE cache

\* a call of get_version
GetVersion ==
    /\ pc = "idle"
    /\ nCalls < MaxCalls
    /\ nCalls' = nCalls + 1
    /\ IF found(TRUE).kind = "raise"
       THEN /\ result' = [arg |-> which_prog] @@ Raised("get_version", found(TRUE).error)
            /\ UNCHANGED <<version_cache, reads, returned>>
       ELSE /\ version_cache' = CacheAfter(version_cache, which_prog, raw_version)
            /\ reads' = IF ReadsBackend(version_cache, which_prog)
                        THEN [reads EXCEPT ![which_prog] = @ + 1]
                        ELSE reads
            /\ result' = [arg |-> which_prog]
                         @@ Returned("get_version", version_cache'[which_prog])
            /\ returned' = [returned EXCEPT
                              ![which_prog] = @ \cup {version_cache'[which_prog]}]
    /\ UNCHANGED <<envVars, computeVars>>

\* between calls the package is installed, removed, moved or upgraded
EnvChange ==
    /\ pc = "idle"
    /\ present' \in BOOLEAN
    /\ which_prog' \in Paths
    /\ raw_version' \in RawVersions
    /\ UNCHANGED <<versionVars, computeVars, result>>

\* ------------------------------------------------------- compute: its parts

\* the assertion's tolerance, 1.0e-8, in units of 1e-9
Tol == 10

\* mtd after "strip engine hint"
StripEngineHint(m) ==
    IF StartsWith(m, EnginePrefix) THEN DropFirst(m, Len(EnginePrefix)) ELSE m

\* param_tweaks: None if mtd else input_model.keywords.get("params_tweaks", None)
ParamTweaks(m, keywords) == IF m # <<>> THEN <<>> ELSE Get(keywords, "params_tweaks")

\* one pass of the loop "strip dispersion level from method"
StripAlias(m, alias, d4) ==
    IF d4 = D4BJ /\ EndsWith(Lower(m), alias)
    THEN DropLast(m, Len(alias) + 1)
    ELSE m

RECURSIVE StripLevel(_, _, _)
\* mtd after the loop over get_dispersion_aliases().items(), from entry i on
StripLevel(m, t, i) ==
    IF i > Len(t) THEN m
    ELSE StripLevel(StripAlias(m, t[i][1], t[i][2]), t, i + 1)

\* "consolidate dispersion level aliases": the keywords of input_data, or the
\* KeyError of get_dispersion_aliases()[level_hint.lower()]
ConsolidateHint(keywords, t) ==
    LET level_hint == Get(keywords, "level_hint") IN
    IF level_hint = <<>> \/ level_hint[1] = <<>>
    THEN [kind |-> "ok", keywords |-> keywords]
    ELSE IF Lower(level_hint[1]) \notin AliasKeys(t)
    THEN [kind |-> "raise", error |-> "KeyError"]
    ELSE IF Lookup(t, Lower(level_hint[1])) = D4BJ
    THEN [kind |-> "ok", keywords |-> Put(keywords, "level_hint", D4)]
    ELSE [kind |-> "ok", keywords |-> keywords]

\* the merge with the precedence reversed: the backend's keys win
MergeExtras_BackendWins(out_extras, in_extras) == Update(in_extras, out_extras)

\* output.extras after output.extras.update(input_model.extras)
MergeExtras(out_extras, in_extras) == Update(out_extras, in_extras)

\* a stashed plan assumed when there is none: an empty fctldash
StashedPlan_Default(req) ==
    IF "info" \in DOMAIN req.extras
    THEN Get(req.extras, "info")
    ELSE <<[fctldash |-> <<>>]>>

\* input_model.extras["info"] when "info" in input_model.extras
StashedPlan(req) == Get(req.extras, "info")

\* the energy entries of calcinfo
EnergyVars(qcvkey, ene) ==
    (QcvKey(<<>>, "CURRENT ENERGY") :> ene)
    @@ (QcvKey(<<>>, "DISPERSION CORRECTION ENERGY") :> ene)
    @@ (IF qcvkey # <<>>
        THEN QcvKey(qcvkey, " DISPERSION CORRECTION ENERGY") :> ene
        ELSE EmptyDict)

\* the gradient entries written whatever the driver is
GradientVars_AnyDriver(qcvkey, driver, grad) ==
    (QcvKey(<<>>, "CURRENT GRADIENT") :> grad)
    @@ (QcvKey(<<>>, "DISPERSION CORRECTION GRADIENT") :> grad)
    @@ (IF qcvkey # <<>>
        THEN QcvKey(qcvkey, " DISPERSION CORRECTION GRADIENT") :> grad
        ELSE EmptyDict)

\* the gradient entries of calcinfo
GradientVars(qcvkey, driver, grad) ==
    IF driver = "gradient"
    THEN (QcvKey(<<>>, "CURRENT GRADIENT") :> grad)
         @@ (QcvKey(<<>>, "DISPERSION CORRECTION GRADIENT") :> grad)
         @@ (IF qcvkey # <<>>
             THEN QcvKey(qcvkey, " DISPERSION CORRECTION GRADIENT") :> grad
             ELSE EmptyDict)
    ELSE EmptyDict

\* input_model.keywords.get("pair_resolved") is True
PairResolved(keywords) == Get(keywords, "pair_resolved") = <<"True">>

\* the assertion without abs(): a sum below the energy always passes
PairConsistent_NoAbs(pw2, pw3, ene) == Sum(pw2) + Sum(pw3) - ene < Tol

\* the assertion on the pairwise sums
PairConsistent(pw2, pw3, ene) == Abs(Sum(pw2) + Sum(pw3) - ene) < Tol

\* the pairwise entries of calcinfo
PairVars(pw2, pw3) ==
    (QcvKey(<<>>, "2-BODY DISPERSION CORRECTION ENERGY") :> Sum(pw2))
    @@ (QcvKey(<<>>, "3-BODY DISPERSION CORRECTION ENERGY") :> Sum(pw3))
    @@ (QcvKey(<<>>, "2-BODY PAIRWISE DISPERSION CORRECTION ANALYSIS") :> pw2)
    @@ (QcvKey(<<>>, "3-BODY PAIRWISE DISPERSION CORRECTION ANALYSIS") :> pw3)

\* lines 114-143 on the merged output out: the result compute returns, or the
\* error it raises; checked tells whether the assertion was evaluated, written
\* whether output.extras["qcvars"] was assigned
Annotate(req, out) ==
    IF StashedPlan(req) = <<>>
    THEN [kind |-> "return", output |-> out, checked |-> FALSE, written |-> FALSE]
    ELSE IF "fctldash" \notin DOMAIN StashedPlan(req)[1]
    THEN [kind |-> "raise", error |-> "KeyError", checked |-> FALSE, written |-> FALSE]
    ELSE
      LET qcvkey == Upper(StashedPlan(req)[1].fctldash)
          ene == out.return_energy
          calcinfo == EnergyVars(qcvkey, ene)
                      @@ GradientVars(qcvkey, req.driver, out.return_result)
      IN
      IF ~PairResolved(req.keywords)
      THEN [kind |-> "return", checked |-> FALSE, written |-> TRUE,
            output |-> [out EXCEPT !.extras = Put(@, "qcvars", calcinfo)]]
      ELSE IF "dftd4" \notin DOMAIN out.extras
      THEN [kind |-> "raise", error |-> "KeyError", checked |-> FALSE,
            written |-> FALSE]
      ELSE
        LET pw2 == out.extras["dftd4"].additive
            pw3 == out.extras["dftd4"].nonadditive
        IN
        IF ~PairConsistent(pw2, pw3, ene)
        THEN [kind |-> "raise", error |-> "AssertionError", checked |-> TRUE,
              written |-> FALSE]
        ELSE [kind |-> "return", checked |-> TRUE, written |-> TRUE,
              output |-> [out EXCEPT
                            !.extras = Put(@, "qcvars", calcinfo @@ PairVars(pw2, pw3))]]

\* ------------------------------------------------------ compute: its steps

\* compute(input_model, config) is called in a process whose alias table is c[2]
ComputeCall(calls) ==
    /\ pc = "idle"
    /\ \E c \in calls :
         /\ request' = c[1]
         /\ input_model' = c[1]
         /\ aliases' = c[2]
    /\ pc' = "found"
    /\ result' = NoResult
    /\ UNCHANGED <<envVars, versionVars, input_data, mtd, resolved, delegated,
                   output, pair_checked, qcvars_written, backend>>

\* self.found(raise_error=True)
Probe ==
    /\ pc = "found"
    /\ IF found(TRUE).kind = "raise"
       THEN /\ pc' = "raised"
            /\ result' = RaisedAt(pc, found(TRUE).error)
       ELSE /\ pc' = "strip_hint"
            /\ UNCHANGED result
    /\ UNCHANGED <<envVars, versionVars, aliases, request, input_model, input_data,
                   mtd, resolved, delegated, output, pair_checked, qcvars_written, backend>>

\* strip engine hint
StripHint ==
    /\ pc = "strip_hint"
    /\ mtd' = StripEngineHint(input_model.method)
    /\ input_data' = [input_model EXCEPT !.method = mtd']
    /\ pc' = "resolve"
    /\ UNCHANGED <<envVars, versionVars, aliases, request, input_model, resolved,
                   delegated, output, pair_checked, qcvars_written, backend, result>>

\* the from_arrays call, with try / except InputError / else
Resolve ==
    /\ pc = "resolve"
    /\ \E o \in ResolverOutcomes :
         /\ resolved' = Append(resolved,
                [name_hint |-> mtd,
                 level_hint |-> Get(input_model.keywords, "level_hint"),
                 param_tweaks |-> ParamTweaks(mtd, input_model.keywords),
                 dashcoeff_supplement |->
                     Get(input_model.keywords, "dashcoeff_supplement"),
                 outcome |-> o])
         /\ IF o.kind = "plan"
            THEN /\ input_data' = [input_data EXCEPT !.extras = Put(@, "info", o.plan)]
                 /\ pc' = "strip_level"
                 /\ UNCHANGED result
            ELSE IF o.kind = "InputError"
            THEN /\ pc' = "strip_level"
                 /\ UNCHANGED <<input_data, result>>
            ELSE /\ pc' = "raised"
                 /\ result' = RaisedAt(pc, o.kind)
                 /\ UNCHANGED input_data
    /\ UNCHANGED <<envVars, versionVars, aliases, request, input_model, mtd,
                   delegated, output, pair_checked, qcvars_written, backend>>

\* strip dispersion level from method
StripLevelStep ==
    /\ pc = "strip_level"
    /\ mtd' = StripLevel(mtd, aliases, 1)
    /\ input_data' = [input_data EXCEPT !.method = mtd']
    /\ pc' = "consolidate"
    /\ UNCHANGED <<envVars, versionVars, aliases, request, input_model, resolved,
                   delegated, output, pair_checked, qcvars_written, backend, result>>

\* consolidate dispersion level aliases
Consolidate ==
    /\ pc = "consolidate"
    /\ LET c == ConsolidateHint(input_model.keywords, aliases) IN
       IF c.kind = "raise"
       THEN /\ pc' = "raised"
            /\ result' = RaisedAt(pc, c.error)
            /\ UNCHANGED input_data
       ELSE /\ input_data' =
                 [input_data EXCEPT
                    !.keywords = IF c.keywords = input_model.keywords
                                 THEN @
                                 ELSE Put(@, "level_hint", c.keywords["level_hint"])]
            /\ pc' = "rebuild"
            /\ UNCHANGED result
    /\ UNCHANGED <<envVars, versionVars, aliases, request, input_model, mtd,
                   resolved, delegated, output, pair_checked, qcvars_written, backend>>

\* input_model = AtomicInput(**input_data)
Rebuild ==
    /\ pc = "rebuild"
    /\ input_model' = input_data
    /\ pc' = "run"
    /\ UNCHANGED <<envVars, versionVars, aliases, request, input_data, mtd,
                   resolved, delegated, output, pair_checked, qcvars_written, backend, result>>

\* output = run_qcschema(input_model)
Run ==
    /\ pc = "run"
    /\ delegated' = Append(delegated, input_model)
    /\ \E o \in DelegateOutcomes(input_model) :
         IF o.kind = "raise"
         THEN /\ pc' = "raised"
              /\ result' = RaisedAt(pc, "DelegateError")
              /\ UNCHANGED <<output, backend>>
         ELSE /\ output' = o.output
              /\ backend' = <<o.output>>
              /\ pc' = "merge"
              /\ UNCHANGED result
    /\ UNCHANGED <<envVars, versionVars, aliases, request, input_model, input_data,
                   mtd, resolved, pair_checked, qcvars_written>>

\* output.extras.update(input_model.extras)
Merge ==
    /\ pc = "merge"
    /\ output' = [output EXCEPT !.extras = MergeExtras(@, input_model.extras)]
    /\ pc' = "annotate"
    /\ UNCHANGED <<envVars, versionVars, aliases, request, input_model, input_data,
                   mtd, resolved, delegated, pair_checked, qcvars_written, backend, result>>

\* the metadata bag, and return output
AnnotateStep ==
    /\ pc = "annotate"
    /\ LET a == Annotate(input_model, output) IN
       /\ pair_checked' = a.checked
       /\ qcvars_written' = a.written
       /\ IF a.kind = "raise"
          THEN /\ pc' = "raised"
               /\ result' = RaisedAt(pc, a.error)
               /\ UNCHANGED output
          ELSE /\ pc' = "done"
               /\ output' = a.output
               /\ result' = Returned("compute", a.output)
    /\ UNCHANGED <<envVars, versionVars, aliases, request, input_model, input_data,
                   mtd, resolved, delegated, backend>>

\* the caller has the result or the error; compute's frame is gone
Finish ==
    /\ pc \in {"done", "raised"}
    /\ pc' = "idle"
    /\ aliases' = SomeTable
    /\ request' = NullRequest
    /\ input_model' = NullRequest
    /\ input_data' = NullRequest
    /\ mtd' = <<>>
    /\ resolved' = <<>>
    /\ delegated' = <<>>
    /\ output' = NullOutput
    /\ pair_checked' = FALSE
    /\ qcvars_written' = FALSE
    /\ backend' = <<>>
    /\ result' = NoResult
    /\ UNCHANGED <<envVars, versionVars>>

ComputeSteps ==
    \/ Probe
    \/ StripHint
    \/ Resolve
    \/ StripLevelStep
    \/ Consolidate
    \/ Rebuild
    \/ Run
    \/ Merge
    \/ AnnotateStep
    \/ Finish

\* the harness in use: probes, version queries and a few computes, in a
\* process whose environment changes between calls
Next ==
    \/ Found
    \/ GetVersion
    \/ EnvChange
    \/ ComputeCall(CoreRequests)
    \/ ComputeSteps

Spec == Init /\ [][Next]_vars

\* compute over the request families
NextCompute ==
    \/ Found
    \/ ComputeCall(Requests)
    \/ ComputeSteps

SpecCompute == Init /\ [][NextCompute]_vars

\* ------------------------------------------------------------------ claims

\* the aliases the table maps to the tag "d4bj"
BJAliases == { aliases[j][1] : j \in { i \in DOMAIN aliases : aliases[i][2] = D4BJ } }

\* s ends, case-insensitively, with "-" + alias
EndsWithDashAlias(s, alias) == EndsWith(Lower(s), <<"-">> \o Lower(alias))

\* how the from_arrays call of the running compute ended
PlanSucceeded == resolved # <<>> /\ resolved[1].outcome.kind = "plan"

InputErrorSwallowed == resolved # <<>> /\ resolved[1].outcome.kind = "InputError"

\* C1: the method of every request handed to run_qcschema neither begins with
\* "d4-" nor ends, case-insensitively, with "-" + alias for an alias of "d4bj".
C1_DelegateMethodStripped ==
    \A i \in DOMAIN delegated :
        /\ ~StartsWith(delegated[i].method, EnginePrefix)
        /\ \A alias \in BJAliases : ~EndsWithDashAlias(delegated[i].method, alias)

\* C8: after the suffix-stripping loop, the prefix-stripped method string (the
\* name hint from_arrays got) has lost exactly one "-" + alias suffix if it ended
\* with one for an alias of "d4bj", and is unchanged otherwise.
C8_SuffixStripExact ==
    pc = "consolidate" =>
        LET before == resolved[1].name_hint
            hits == { a \in BJAliases : EndsWithDashAlias(before, a) }
        IN IF hits = {}
           THEN mtd = before
           ELSE \E a \in hits : mtd = DropLast(before, Len(a) + 1)

\* C9: the level-hint step raises nothing; the keywords handed to run_qcschema
\* have level_hint "d4" when the request's level_hint looks up to "d4bj" in the
\* alias table, and are the request's keywords otherwise.
C9_LevelHintNormalized ==
    /\ ~(pc = "raised" /\ result.at = "consolidate")
    /\ \A i \in DOMAIN delegated :
         LET kw == request.keywords IN
         IF /\ "level_hint" \in DOMAIN kw
            /\ Lower(kw["level_hint"]) \in AliasKeys(aliases)
            /\ Lookup(aliases, Lower(kw["level_hint"])) = D4BJ
         THEN delegated[i].keywords = Put(kw, "level_hint", D4)
         ELSE delegated[i].keywords = kw

\* C3: a plan from_arrays returned is what the delegate's request carries under
\* extras.info; after a swallowed InputError nothing is written to extras.info
\* and compute does not end without invoking the delegate; any other resolver
\* error ends compute with that error and without a delegate call.
C3_PlanResolution ==
    resolved # <<>> =>
        /\ PlanSucceeded =>
             \A i \in DOMAIN delegated :
                 Get(delegated[i].extras, "info") = <<resolved[1].outcome.plan>>
        /\ InputErrorSwallowed =>
             /\ Get(input_data.extras, "info") = Get(request.extras, "info")
             /\ pc \in {"done", "raised"} => delegated # <<>>
        /\ resolved[1].outcome.kind = "OtherError" =>
             /\ pc = "raised"
             /\ result = RaisedAt("resolve", "OtherError")
             /\ delegated = <<>>

\* the request handed to run_qcschema carries extras.info
DelegateHasInfo == delegated # <<>> /\ "info" \in DOMAIN delegated[1].extras

\* the stashed entry is a plan: it holds fctldash
DelegateHasPlan ==
    DelegateHasInfo /\ "fctldash" \in DOMAIN delegated[1].extras["info"]

\* C2 as stated: in the result compute returns, every key of the original
\* request's extras holds the original request's value.
C2_AllRequestExtrasKept ==
    pc = "done" =>
        \A k \in DOMAIN request.extras :
            /\ k \in DOMAIN result.value.extras
            /\ result.value.extras[k] = request.extras[k]

\* C2 amended: every key of the original request's extras is in the result;
\* it holds the original value, except that "info" holds the resolved plan
\* when from_arrays returned one, and "qcvars" holds the adapter's metadata bag
\* when the delegate's request carried extras.info.
C2_RequestExtrasKept ==
    pc = "done" =>
        \A k \in DOMAIN request.extras :
            /\ k \in DOMAIN result.value.extras
            /\ IF k = "info" /\ PlanSucceeded
               THEN result.value.extras[k] = resolved[1].outcome.plan
               ELSE IF k = "qcvars" /\ DelegateHasInfo
               THEN /\ qcvars_written
                    /\ result.value.extras[k][QcvKey(<<>>, "CURRENT ENERGY")]
                           = result.value.return_energy
               ELSE result.value.extras[k] = request.extras[k]

\* C2 witness: a result is returned whose "note" and "dftd4" are the caller's
\* although the backend result held its own "note", and whose "info" is the
\* caller's because from_arrays failed.
C2_Witness ==
    /\ pc = "done"
    /\ {"note", "dftd4", "info"} \subseteq DOMAIN request.extras
    /\ InputErrorSwallowed
    /\ "note" \in DOMAIN backend[1].extras
    /\ backend[1].extras["note"] # request.extras["note"]
    /\ result.value.extras["note"] = request.extras["note"]
    /\ result.value.extras["info"] = request.extras["info"]

\* the pairwise arrays of the merged result extras sum to the returned energy
\* within the tolerance
MergedPairwiseConsistent ==
    Abs(Sum(output.extras["dftd4"].additive)
        + Sum(output.extras["dftd4"].nonadditive)
        - output.return_energy) < Tol

\* the returned qcvars hold 2-BODY and 3-BODY entries summing to the returned
\* energy within the tolerance
BodyEntriesConsistent ==
    /\ "qcvars" \in DOMAIN result.value.extras
    /\ LET q == result.value.extras["qcvars"]
           k2 == QcvKey(<<>>, "2-BODY DISPERSION CORRECTION ENERGY")
           k3 == QcvKey(<<>>, "3-BODY DISPERSION CORRECTION ENERGY")
       IN /\ {k2, k3} \subseteq DOMAIN q
          /\ Abs(q[k2] + q[k3] - result.value.return_energy) < Tol

PairResolvedTrue ==
    /\ "pair_resolved" \in DOMAIN request.keywords
    /\ request.keywords["pair_resolved"] = "True"

\* C4 as stated: with pair_resolved true and a result from the delegate,
\* compute returns only if the pairwise sums agree with the energy, and then
\* the 2-BODY and 3-BODY entries are there and agree too; for every request.
C4_PairCheckAlways ==
    (PairResolvedTrue /\ backend # <<>> /\ pc = "done") =>
        /\ MergedPairwiseConsistent
        /\ BodyEntriesConsistent

\* C4 amended: the same, for requests whose delegate request carries a plan
\* (with fctldash) under extras.info; then compute also fails only on the
\* assertion, and only when the sums disagree.
C4_PairCheckWithPlan ==
    (PairResolvedTrue /\ backend # <<>> /\ DelegateHasPlan) =>
        /\ pc = "done" => MergedPairwiseConsistent /\ BodyEntriesConsistent
        /\ pc = "raised" =>
             /\ result = RaisedAt("annotate", "AssertionError")
             /\ ~MergedPairwiseConsistent

\* C4 witness: a plan was stashed, the sums are off by one unit less than the
\* tolerance, and the result holds the two entries.
C4_Witness ==
    /\ PairResolvedTrue /\ DelegateHasPlan /\ backend # <<>>
    /\ pc = "done"
    /\ Abs(Sum(output.extras["dftd4"].additive)
           + Sum(output.extras["dftd4"].nonadditive) - output.return_energy) = Tol - 1
    /\ BodyEntriesConsistent

\* the keys of the metadata bag that are not pairwise entries
EnergyGradientKeys(q) ==
    { k \in DOMAIN q :
        k.label \in { "CURRENT ENERGY", "DISPERSION CORRECTION ENERGY",
                      " DISPERSION CORRECTION ENERGY", "CURRENT GRADIENT",
                      "DISPERSION CORRECTION GRADIENT",
                      " DISPERSION CORRECTION GRADIENT" } }

\* C6: when the delegate's request carries a plan and compute returns, qcvars
\* holds CURRENT ENERGY and DISPERSION CORRECTION ENERGY, the fctldash-prefixed
\* energy key exactly when fctldash is non-empty, and the corresponding
\* GRADIENT keys exactly when the driver is gradient; energy keys hold the
\* returned energy and gradient keys the returned gradient.
C6_QcvarsEntries ==
    (pc = "done" /\ DelegateHasPlan) =>
        /\ "qcvars" \in DOMAIN result.value.extras
        /\ LET q == result.value.extras["qcvars"]
               fctl == delegated[1].extras["info"].fctldash
               up == Upper(fctl)
               isgrad == delegated[1].driver = "gradient"
               ekeys == { QcvKey(<<>>, "CURRENT ENERGY"),
                          QcvKey(<<>>, "DISPERSION CORRECTION ENERGY") }
                        \cup (IF fctl # <<>>
                              THEN { QcvKey(up, " DISPERSION CORRECTION ENERGY") }
                              ELSE {})
               gkeys == IF isgrad
                        THEN { QcvKey(<<>>, "CURRENT GRADIENT"),
                               QcvKey(<<>>, "DISPERSION CORRECTION GRADIENT") }
                             \cup (IF fctl # <<>>
                                   THEN { QcvKey(up, " DISPERSION CORRECTION GRADIENT") }
                                   ELSE {})
                        ELSE {}
           IN /\ EnergyGradientKeys(q) = ekeys \cup gkeys
              /\ \A k \in ekeys : q[k] = result.value.return_energy
              /\ \A k \in gkeys : q[k] = result.value.return_result

\* C6 witness: driver gradient, stashed fctldash "pbe-d4", and the result holds
\* "PBE-D4 DISPERSION CORRECTION GRADIENT".
C6_Witness ==
    /\ pc = "done"
    /\ PlanSucceeded
    /\ request.driver = "gradient"
    /\ resolved[1].outcome.plan.fctldash = <<"p", "b", "e", "-", "d", "4">>
    /\ LET k == QcvKey(<<"P", "B", "E", "-", "D", "4">>,
                       " DISPERSION CORRECTION GRADIENT")
       IN /\ k \in DOMAIN result.value.extras["qcvars"]
          /\ result.value.extras["qcvars"][k] = <<1, -1, 0>>

\* C10 as stated: a returned result carries an adapter-written qcvars bag
\* exactly when from_arrays returned a plan; after a swallowed InputError no
\* bag is written and the pairwise assertion is not evaluated.
C10_QcvarsIffResolved ==
    /\ pc = "done" => (qcvars_written <=> PlanSucceeded)
    /\ InputErrorSwallowed => ~qcvars_written /\ ~pair_checked

\* C10 amended: a returned result carries an adapter-written qcvars bag
\* exactly when from_arrays returned a plan or the caller's extras held "info";
\* after a swallowed InputError on a request without extras["info"], no bag is
\* written and the pairwise assertion is not evaluated.
C10_QcvarsIffInfo ==
    /\ pc = "done" =>
         (qcvars_written <=> (PlanSucceeded \/ "info" \in DOMAIN request.extras))
    /\ (InputErrorSwallowed /\ "info" \notin DOMAIN request.extras) =>
         ~qcvars_written /\ ~pair_checked

\* C10 witness: InputError swallowed, no extras["info"], pair_resolved true and
\* inconsistent pairwise sums, yet compute returns: nothing was checked.
C10_Witness ==
    /\ pc = "done"
    /\ InputErrorSwallowed
    /\ "info" \notin DOMAIN request.extras
    /\ PairResolvedTrue
    /\ ~MergedPairwiseConsistent
    /\ "qcvars" \notin DOMAIN result.value.extras

\* C5: dftd4.__version__ is read at most once per resolved path, all
\* get_version calls for one path return the same string, and an entry of
\* version_cache, once stored, is never removed or changed.
C5_VersionCached ==
    /\ [](\A p \in Paths : reads[p] <= 1 /\ Cardinality(returned[p]) <= 1)
    /\ [][\A p \in DOMAIN version_cache :
              /\ p \in DOMAIN version_cache'
              /\ version_cache'[p] = version_cache[p]]_vars

\* C5 witness: a later get_version call for an already cached path returns the
\* cached string although the backend now reports another version.
C5_Witness ==
    /\ nCalls >= 2
    /\ result.op = "get_version"
    /\ result.kind = "return"
    /\ reads[result.arg] = 1
    /\ result.value # safe_version(raw_version)
    /\ returned[result.arg] = {result.value}

\* C7: with the backend absent, found(False) returns False, found(True) and
\* get_version raise MissingDependency with version_cache untouched, and
\* compute raises MissingDependency at its probe, before any from_arrays or
\* run_qcschema call.
C7_AbsentBackend ==
    [][~present =>
         /\ (result' # result /\ result'.op = "found") =>
               IF result'.arg
               THEN result'.kind = "raise" /\ result'.error = "MissingDependency"
               ELSE result'.kind = "return" /\ result'.value = FALSE
         /\ nCalls' # nCalls =>
               /\ result'.op = "get_version"
               /\ result'.kind = "raise"
               /\ result'.error = "MissingDependency"
               /\ version_cache' = version_cache
               /\ reads' = reads
         /\ pc = "found" =>
               /\ pc' = "raised"
               /\ result' = RaisedAt("found", "MissingDependency")
               /\ resolved' = <<>>
               /\ delegated' = <<>>]_vars

\* C7 witness: with the backend absent, get_version calls have left the cache
\* empty and a compute call has ended in MissingDependency with no resolver
\* and no delegate call.
C7_Witness ==
    /\ ~present
    /\ nCalls >= 1
    /\ version_cache = EmptyDict
    /\ pc = "raised"
    /\ result = RaisedAt("found", "MissingDependency")
    /\ resolved = <<>>
    /\ delegated = <<>>

====
